---- MODULE Spec2Model ----
(***************************************************************************)
(* A model of the geohash library (sonnet_geo.py, codex_geo.py,            *)
(* geohash.py).                                                            *)
(*                                                                         *)
(* Coordinates.  Every number the bisection produces is a dyadic fraction  *)
(* of 180 degrees, which a double holds exactly, and every comparison and  *)
(* halving on such numbers is exact in IEEE arithmetic.  The model keeps   *)
(* them as integers in units of 180 / 2^UnitBits degrees, so that 180.0 is *)
(* Deg180 and 90.0 is Deg90, and x / 2 is x \div 2 on an even x.           *)
(*                                                                         *)
(* Strings.  A geohash is a sequence of one-character strings.             *)
(***************************************************************************)
EXTENDS Integers, Sequences, FiniteSets, TLC

\* ---------------------------------------------------------------- bounds
\* Longest geohash (and largest precision) the model draws.
MaxPrecision == 2
\* The input points lie on a grid of 2^GridBits steps per axis.
GridBits == 6

\* ------------------------------------------------------------- constants
BITS_PER_CHAR == 5

BASE32_ALPHABET ==
  << "0", "1", "2", "3", "4", "5", "6", "7", "8", "9", "b", "c", "d", "e",
     "f", "g", "h", "j", "k", "m", "n", "p", "q", "r", "s", "t", "u", "v",
     "w", "x", "y", "z" >>

\* The characters of the alphabet, as a set.
AlphabetChars == { BASE32_ALPHABET[i] : i \in 1..Len(BASE32_ALPHABET) }

\* char -> index (0-based, as enumerate gives it).
BASE32_DECODE_MAP ==
  [ c \in AlphabetChars |->
      (CHOOSE i \in 1..Len(BASE32_ALPHABET) : BASE32_ALPHABET[i] = c) - 1 ]

\* Number of longitude bits of a geohash of p characters (even positions).
LonBitsAt(p) == (p * BITS_PER_CHAR + 1) \div 2

MaxOf(a, b) == IF a >= b THEN a ELSE b

\* log2 of the number of model units in 180 degrees: one more halving than the
\* finest latitude cell centre needs, and no coarser than the input grid.
UnitBits == MaxOf(LonBitsAt(MaxPrecision) + 1, GridBits)

Deg180 == 2 ^ UnitBits
Deg90 == 2 ^ (UnitBits - 1)

LON_RANGE == << -Deg180, Deg180 >>
LAT_RANGE == << -Deg90, Deg90 >>
LON_SPAN == 2 * Deg180

\* x / 2 of the source, on the model's integers: defined only where the
\* division is exact, so that the model never rounds where a double does not.
Half(x) == CHOOSE h \in { x \div 2 } : 2 * h = x

\* ------------------------------------------------------------ base32 codec
\* The for-loop of _bits_to_geohash from position i on.
RECURSIVE PackLoop(_, _, _, _, _)
PackLoop(bits, i, accumulator, count, geohash_chars) ==
  IF i > Len(bits) THEN geohash_chars
  ELSE LET acc == accumulator * 2 + bits[i]      \* (accumulator << 1) | bit
           cnt == count + 1
       IN IF cnt = BITS_PER_CHAR
          THEN PackLoop(bits, i + 1, 0, 0,
                        Append(geohash_chars, BASE32_ALPHABET[acc + 1]))
          ELSE PackLoop(bits, i + 1, acc, cnt, geohash_chars)

\* A mutant of the packer: the group is read LSB-first.
RECURSIVE PackLoopLsb(_, _, _, _, _)
PackLoopLsb(bits, i, accumulator, count, geohash_chars) ==
  IF i > Len(bits) THEN geohash_chars
  ELSE LET acc == accumulator + bits[i] * (2 ^ count)
           cnt == count + 1
       IN IF cnt = BITS_PER_CHAR
          THEN PackLoopLsb(bits, i + 1, 0, 0,
                           Append(geohash_chars, BASE32_ALPHABET[acc + 1]))
          ELSE PackLoopLsb(bits, i + 1, acc, cnt, geohash_chars)

_bits_to_geohash_lsb(bits) ==
  IF Len(bits) % BITS_PER_CHAR # 0
  THEN [err |-> "ValueError", geohash |-> << >>]
  ELSE [err |-> "", geohash |-> PackLoopLsb(bits, 1, 0, 0, << >>)]

\* _bits_to_geohash: the string, or the ValueError of a length not a multiple
\* of 5.
_bits_to_geohash(bits) ==
  IF Len(bits) % BITS_PER_CHAR # 0
  THEN [err |-> "ValueError", geohash |-> << >>]
  ELSE [err |-> "", geohash |-> PackLoop(bits, 1, 0, 0, << >>)]

\* The 5 bits of one character value, shift = 4, 3, 2, 1, 0.
CharBits(value) ==
  [ k \in 1..BITS_PER_CHAR |-> (value \div (2 ^ (BITS_PER_CHAR - k))) % 2 ]

\* The for-loop of _geohash_to_bits from character i on.
RECURSIVE UnpackLoop(_, _, _)
UnpackLoop(geohash, i, bits) ==
  IF i > Len(geohash) THEN [err |-> "", bits |-> bits]
  ELSE IF geohash[i] \notin DOMAIN BASE32_DECODE_MAP
       THEN [err |-> "InvalidGeohashError", bits |-> << >>]
       ELSE UnpackLoop(geohash, i + 1,
                       bits \o CharBits(BASE32_DECODE_MAP[geohash[i]]))

\* _geohash_to_bits: the bit list, or InvalidGeohashError.
_geohash_to_bits(geohash) == UnpackLoop(geohash, 1, << >>)

\* ------------------------------------------------------- interval bisector
\* bits[::2] and bits[1::2].
EvenBits(bits) == [ i \in 1..((Len(bits) + 1) \div 2) |-> bits[2 * i - 1] ]
OddBits(bits) == [ i \in 1..(Len(bits) \div 2) |-> bits[2 * i] ]

\* The for-loop of _refine_interval from bit i on.
RECURSIVE RefineLoop(_, _, _, _)
RefineLoop(bits, i, low, high) ==
  IF i > Len(bits) THEN << low, high >>
  ELSE LET mid == Half(low + high)
       IN IF bits[i] # 0
          THEN RefineLoop(bits, i + 1, mid, high)
          ELSE RefineLoop(bits, i + 1, low, mid)

\* A mutant of _refine_interval: the sense of the bits is inverted.
_refine_interval_flip(bits, initial_range) ==
  RefineLoop([ i \in 1..Len(bits) |-> 1 - bits[i] ], 1,
             initial_range[1], initial_range[2])

_refine_interval(bits, initial_range) ==
  RefineLoop(bits, 1, initial_range[1], initial_range[2])

\* A mutant of _total_bits: four bits per character.
_total_bits_short(precision) ==
  IF precision <= 0
  THEN [err |-> "InvalidPrecisionError", value |-> 0]
  ELSE [err |-> "", value |-> precision * (BITS_PER_CHAR - 1)]

_total_bits(precision) ==
  IF precision <= 0
  THEN [err |-> "InvalidPrecisionError", value |-> 0]
  ELSE [err |-> "", value |-> precision * BITS_PER_CHAR]

\* A mutant of _wrap_longitude: the longitude is passed through unwrapped.
_wrap_longitude_none(lon) == lon

\* On the exact values of the model the modulo already lies in [0, 360), so
\* the special case is taken only where a double rounds the modulo up to 360.
_wrap_longitude(lon) ==
  LET wrapped == ((lon - LON_RANGE[1]) % LON_SPAN) + LON_RANGE[1]
  IN IF wrapped = LON_RANGE[2] THEN LON_RANGE[1] ELSE wrapped

MinOf(a, b) == IF a <= b THEN a ELSE b

\* A mutant of _clamp_latitude: a latitude past a pole wraps to the other one.
_clamp_latitude_wrap(lat) ==
  IF lat > LAT_RANGE[2] THEN lat - (LAT_RANGE[2] - LAT_RANGE[1])
  ELSE IF lat < LAT_RANGE[1] THEN lat + (LAT_RANGE[2] - LAT_RANGE[1])
  ELSE lat

_clamp_latitude(lat) == MaxOf(LAT_RANGE[1], MinOf(lat, LAT_RANGE[2]))

\* ------------------------------------------------------------------ encode
\* The locals of encode as its loop starts (lines 368-371).
EncodeLocals ==
  [ lon_interval |-> LON_RANGE, lat_interval |-> LAT_RANGE,
    bits |-> << >>, use_lon |-> TRUE ]

\* A mutant of the loop body: a value on the midpoint goes to the lower half.
EncodeLoopBodyStrict(st, lon, lat) ==
  LET interval == IF st.use_lon THEN st.lon_interval ELSE st.lat_interval
      value == IF st.use_lon THEN lon ELSE lat
      mid == Half(interval[1] + interval[2])
      upper == value > mid
      narrowed == IF upper THEN << mid, interval[2] >> ELSE << interval[1], mid >>
  IN [ lon_interval |-> IF st.use_lon THEN narrowed ELSE st.lon_interval,
       lat_interval |-> IF st.use_lon THEN st.lat_interval ELSE narrowed,
       bits |-> Append(st.bits, IF upper THEN 1 ELSE 0),
       use_lon |-> ~st.use_lon ]

\* One iteration of the loop of sonnet_geo.encode.
EncodeLoopBody(st, lon, lat) ==
  LET interval == IF st.use_lon THEN st.lon_interval ELSE st.lat_interval
      value == IF st.use_lon THEN lon ELSE lat
      mid == Half(interval[1] + interval[2])
      upper == value >= mid
      narrowed == IF upper THEN << mid, interval[2] >> ELSE << interval[1], mid >>
  IN [ lon_interval |-> IF st.use_lon THEN narrowed ELSE st.lon_interval,
       lat_interval |-> IF st.use_lon THEN st.lat_interval ELSE narrowed,
       bits |-> Append(st.bits, IF upper THEN 1 ELSE 0),
       use_lon |-> ~st.use_lon ]

\* A mutant of the validation: out-of-range coordinates are let through.
EncodeValidateLax(lon, lat, precision) == _total_bits(precision).err

\* The validation of sonnet_geo.encode, in the order the code makes it:
\* latitude, longitude, precision.  "" when the inputs are accepted.
EncodeValidate(lon, lat, precision) ==
  IF ~(LAT_RANGE[1] <= lat /\ lat <= LAT_RANGE[2]) THEN "InvalidCoordinateError"
  ELSE IF ~(LON_RANGE[1] <= lon /\ lon <= LON_RANGE[2]) THEN "InvalidCoordinateError"
  ELSE _total_bits(precision).err

RECURSIVE EncodeLoop(_, _, _, _)
EncodeLoop(st, lon, lat, n) ==
  IF n = 0 THEN st ELSE EncodeLoop(EncodeLoopBody(st, lon, lat), lon, lat, n - 1)

\* sonnet_geo.encode as one call: the geohash, or the error raised.
encode(lon, lat, precision) ==
  LET e == EncodeValidate(lon, lat, precision)
  IN IF e # "" THEN [err |-> e, geohash |-> << >>]
     ELSE _bits_to_geohash(
            EncodeLoop(EncodeLocals, lon, lat, _total_bits(precision).value).bits)

\* ------------------------------------------------------------------ decode
NoCell == [ err |-> "", lon |-> 0, lat |-> 0, lon_err |-> 0, lat_err |-> 0,
            geohash |-> << >> ]

\* A mutant of from_geohash: the longitude is refined by the odd bits and the
\* latitude by the even ones.
from_geohash_swapped(geohash) ==
  LET r == _geohash_to_bits(geohash)
  IN IF r.err # "" THEN [ NoCell EXCEPT !.err = r.err ]
     ELSE LET lon_iv == _refine_interval(OddBits(r.bits), LON_RANGE)
              lat_iv == _refine_interval(EvenBits(r.bits), LAT_RANGE)
          IN [ err |-> "",
               lon |-> Half(lon_iv[1] + lon_iv[2]),
               lat |-> Half(lat_iv[1] + lat_iv[2]),
               lon_err |-> Half(lon_iv[2] - lon_iv[1]),
               lat_err |-> Half(lat_iv[2] - lat_iv[1]),
               geohash |-> geohash ]

\* DecodedCell.from_geohash: the cell, or the error of _geohash_to_bits.
from_geohash(geohash) ==
  LET r == _geohash_to_bits(geohash)
  IN IF r.err # "" THEN [ NoCell EXCEPT !.err = r.err ]
     ELSE LET lon_iv == _refine_interval(EvenBits(r.bits), LON_RANGE)
              lat_iv == _refine_interval(OddBits(r.bits), LAT_RANGE)
          IN [ err |-> "",
               lon |-> Half(lon_iv[1] + lon_iv[2]),
               lat |-> Half(lat_iv[1] + lat_iv[2]),
               lon_err |-> Half(lon_iv[2] - lon_iv[1]),
               lat_err |-> Half(lat_iv[2] - lat_iv[1]),
               geohash |-> geohash ]

decode(geohash) == from_geohash(geohash)

\* DecodedCell.to_bbox: (west, south, east, north).
to_bbox(cell) ==
  << cell.lon - cell.lon_err, cell.lat - cell.lat_err,
     cell.lon + cell.lon_err, cell.lat + cell.lat_err >>

\* ------------------------------------------------------- spatial navigator
\* The deltas of the two loops of neighbors, in iteration order.
LatDeltas == << 1, 0, -1 >>
LonDeltas == << -1, 0, 1 >>

\* A mutant of neighbors' step: half a cell instead of a whole one.
NeighborCallHalfStep(cell, precision, k) ==
  encode(_wrap_longitude(cell.lon + LonDeltas[((k - 1) % 3) + 1] * cell.lon_err),
         _clamp_latitude(cell.lat + LatDeltas[((k - 1) \div 3) + 1] * cell.lat_err),
         precision)

\* A mutant of neighbors' iteration: columns outside, rows inside.
NeighborCallColumnMajor(cell, precision, k) ==
  encode(_wrap_longitude(cell.lon + LonDeltas[((k - 1) \div 3) + 1] * (cell.lon_err * 2)),
         _clamp_latitude(cell.lat + LatDeltas[((k - 1) % 3) + 1] * (cell.lat_err * 2)),
         precision)

\* The k-th call of encode that neighbors makes (k = 1..9): the outer loop
\* runs over the latitude deltas, the inner one over the longitude deltas.
NeighborCall(cell, precision, k) ==
  encode(_wrap_longitude(cell.lon + LonDeltas[((k - 1) % 3) + 1] * (cell.lon_err * 2)),
         _clamp_latitude(cell.lat + LatDeltas[((k - 1) \div 3) + 1] * (cell.lat_err * 2)),
         precision)

\* The two nested loops of neighbors from call k on: an error of encode ends
\* them.
RECURSIVE NeighborsLoop(_, _, _, _)
NeighborsLoop(cell, precision, k, acc) ==
  IF k > 9 THEN [err |-> "", results |-> acc]
  ELSE LET r == NeighborCall(cell, precision, k)
       IN IF r.err # "" THEN [err |-> r.err, results |-> << >>]
          ELSE NeighborsLoop(cell, precision, k + 1, Append(acc, r.geohash))

\* neighbors: the 9 results, or the first error raised on the way.
neighbors(geohash) ==
  LET cell == decode(geohash)
  IN IF cell.err # "" THEN [err |-> cell.err, results |-> << >>]
     ELSE NeighborsLoop(cell, Len(geohash), 1, << >>)

\* A mutant of parent: the first character is dropped, not the last.
parent_tail(geohash) ==
  IF Len(geohash) > 1 THEN SubSeq(geohash, 2, Len(geohash)) ELSE geohash

parent(geohash) ==
  IF Len(geohash) > 1 THEN SubSeq(geohash, 1, Len(geohash) - 1) ELSE geohash

\* bbox: the box, or << >> when decode raises.
bbox(geohash) ==
  LET cell == decode(geohash) IN IF cell.err # "" THEN << >> ELSE to_bbox(cell)

\* ------------------------------------------------------ codex_geo variant
codex_total_bits(precision) ==
  IF precision <= 0
  THEN [err |-> "ValueError", value |-> 0]
  ELSE [err |-> "", value |-> precision * BITS_PER_CHAR]

\* One iteration of the loop of codex_geo.encode.
codex_EncodeLoopBody(st, lon, lat) ==
  LET interval == IF st.use_lon THEN st.lon_interval ELSE st.lat_interval
      value == IF st.use_lon THEN lon ELSE lat
      mid == Half(interval[1] + interval[2])
      upper == value >= mid
      narrowed == IF upper THEN << mid, interval[2] >> ELSE << interval[1], mid >>
  IN [ lon_interval |-> IF st.use_lon THEN narrowed ELSE st.lon_interval,
       lat_interval |-> IF st.use_lon THEN st.lat_interval ELSE narrowed,
       bits |-> Append(st.bits, IF upper THEN 1 ELSE 0),
       use_lon |-> ~st.use_lon ]

\* _bits_to_geohash of codex_geo (the same loop as sonnet_geo's).
codex_bits_to_geohash(bits) ==
  IF Len(bits) % BITS_PER_CHAR # 0
  THEN [err |-> "ValueError", geohash |-> << >>]
  ELSE [err |-> "", geohash |-> PackLoop(bits, 1, 0, 0, << >>)]

\* codex_geo.encode as one call: the geohash, or the error raised.
RECURSIVE codex_EncodeLoop(_, _, _, _)
codex_EncodeLoop(st, lon, lat, n) ==
  IF n = 0 THEN st
  ELSE codex_EncodeLoop(codex_EncodeLoopBody(st, lon, lat), lon, lat, n - 1)

codex_encode(lon, lat, precision) ==
  LET t == codex_total_bits(precision)
  IN IF t.err # "" THEN [err |-> t.err, geohash |-> << >>]
     ELSE codex_bits_to_geohash(
            codex_EncodeLoop([ lon_interval |-> LON_RANGE,
                               lat_interval |-> LAT_RANGE,
                               bits |-> << >>, use_lon |-> TRUE ],
                             lon, lat, t.value).bits)

\* ------------------------------------------------------ geohash.py variant
\* Bit strings are sequences of the characters "0" and "1", as in the source.
geohash_base32 ==
  << "0", "1", "2", "3", "4", "5", "6", "7", "8", "9", "b", "c", "d", "e",
     "f", "g", "h", "j", "k", "m", "n", "p", "q", "r", "s", "t", "u", "v",
     "w", "x", "y", "z" >>

geohash_dict32 ==
  ("0" :> 0) @@ ("1" :> 1) @@ ("2" :> 2) @@ ("3" :> 3) @@ ("4" :> 4) @@
  ("5" :> 5) @@ ("6" :> 6) @@ ("7" :> 7) @@ ("8" :> 8) @@ ("9" :> 9) @@
  ("b" :> 10) @@ ("c" :> 11) @@ ("d" :> 12) @@ ("e" :> 13) @@ ("f" :> 14) @@
  ("g" :> 15) @@ ("h" :> 16) @@ ("j" :> 17) @@ ("k" :> 18) @@ ("m" :> 19) @@
  ("n" :> 20) @@ ("p" :> 21) @@ ("q" :> 22) @@ ("r" :> 23) @@ ("s" :> 24) @@
  ("t" :> 25) @@ ("u" :> 26) @@ ("v" :> 27) @@ ("w" :> 28) @@ ("x" :> 29) @@
  ("y" :> 30) @@ ("z" :> 31)

\* The loop of get_bits with n iterations left.
RECURSIVE GetBitsLoop(_, _, _, _, _)
GetBitsLoop(degrees, n, low, high, result) ==
  IF n <= 0 THEN result
  ELSE LET mid == Half(low + high)
       IN IF degrees > mid
          THEN GetBitsLoop(degrees, n - 1, mid, high, Append(result, "1"))
          ELSE GetBitsLoop(degrees, n - 1, low, mid, Append(result, "0"))

\* get_bits: sum(divmod(precision * 5, 2)) bits of one axis.
get_bits(degrees, precision, range_ends) ==
  GetBitsLoop(degrees,
              ((precision * BITS_PER_CHAR) \div 2) + ((precision * BITS_PER_CHAR) % 2),
              -range_ends, range_ends, << >>)

\* ''.join(''.join(x) for x in zip_longest(a, b, fillvalue='')).
ZipLongest(a, b) ==
  LET RECURSIVE Zip(_, _)
      Zip(i, acc) ==
        IF i > Len(a) /\ i > Len(b) THEN acc
        ELSE Zip(i + 1, acc \o (IF i <= Len(a) THEN << a[i] >> ELSE << >>)
                            \o (IF i <= Len(b) THEN << b[i] >> ELSE << >>))
  IN Zip(1, << >>)

\* int(s, 2) of a non-empty string of "0" and "1".
RECURSIVE IntBase2(_)
IntBase2(s) ==
  IF Len(s) = 0 THEN 0
  ELSE 2 * IntBase2(SubSeq(s, 1, Len(s) - 1)) + (IF s[Len(s)] = "1" THEN 1 ELSE 0)

\* geohash.encode: no argument is validated and nothing is raised for the
\* arguments drawn; a precision <= 0 returns the empty string.
geohash_encode(lon, lat, precision) ==
  LET lon_bits == get_bits(lon, precision, Deg180)
      lat_bits == get_bits(lat, precision, Deg90)
      geobits == ZipLongest(lon_bits, lat_bits)
  IN [ i \in 1..precision |->
         geohash_base32[
           IntBase2(SubSeq(geobits, (i - 1) * BITS_PER_CHAR + 1,
                           i * BITS_PER_CHAR)) + 1] ]

\* ------------------------------------------------- polygon and decode views
\* DecodedCell.to_polygon of sonnet_geo.
to_polygon(cell, closed) ==
  LET west == cell.lon - cell.lon_err
      east == cell.lon + cell.lon_err
      south == cell.lat - cell.lat_err
      north == cell.lat + cell.lat_err
      corners == << << west, south >>, << east, south >>,
                    << east, north >>, << west, north >> >>
  IN IF closed THEN Append(corners, << west, south >>) ELSE corners

\* _geohash_to_bits of codex_geo: the bit list, or its ValueError.
RECURSIVE codex_UnpackLoop(_, _, _)
codex_UnpackLoop(geohash, i, bits) ==
  IF i > Len(geohash) THEN [err |-> "", bits |-> bits]
  ELSE IF geohash[i] \notin DOMAIN BASE32_DECODE_MAP
       THEN [err |-> "ValueError: Invalid geohash character", bits |-> << >>]
       ELSE codex_UnpackLoop(geohash, i + 1,
                             bits \o CharBits(BASE32_DECODE_MAP[geohash[i]]))

codex_geohash_to_bits(geohash) == codex_UnpackLoop(geohash, 1, << >>)

\* _refine_interval of codex_geo: the interval it leaves in its argument.
RECURSIVE codex_refine_interval(_, _)
codex_refine_interval(bits, interval) ==
  IF Len(bits) = 0 THEN interval
  ELSE LET mid == Half(interval[1] + interval[2])
       IN codex_refine_interval(
            Tail(bits),
            IF Head(bits) # 0 THEN << mid, interval[2] >>
            ELSE << interval[1], mid >>)

\* DecodedCell.to_polygon of codex_geo.
codex_to_polygon(cell) ==
  LET west == cell.lon - cell.lon_err
      east == cell.lon + cell.lon_err
      south == cell.lat - cell.lat_err
      north == cell.lat + cell.lat_err
  IN << << west, south >>, << east, south >>,
        << west, north >>, << east, north >> >>

\* codex_geo.decode: the view asked for, or the error raised.
codex_decode(geohash, geotype) ==
  LET r == codex_geohash_to_bits(geohash)
  IN IF r.err # "" THEN [err |-> r.err, response |-> << >>]
     ELSE LET lon_interval == codex_refine_interval(EvenBits(r.bits), LON_RANGE)
              lat_interval == codex_refine_interval(OddBits(r.bits), LAT_RANGE)
              cell == [ lon |-> Half(lon_interval[1] + lon_interval[2]),
                        lat |-> Half(lat_interval[1] + lat_interval[2]),
                        lon_err |-> Half(lon_interval[2] - lon_interval[1]),
                        lat_err |-> Half(lat_interval[2] - lat_interval[1]) ]
          IN IF geotype = "point"
             THEN [err |-> "", response |-> << cell.lon, cell.lat >>]
             ELSE IF geotype = "pointerr"
             THEN [err |-> "",
                   response |-> << cell.lon, cell.lat, cell.lon_err, cell.lat_err >>]
             ELSE IF geotype = "polygon"
             THEN [err |-> "", response |-> codex_to_polygon(cell)]
             ELSE [err |-> "ValueError: geotype", response |-> << >>]

\* The string get_geobits returns, instead of bits, for a character that is
\* not in dict32.
GeobitsMessage ==
  << "I", "n", "v", "a", "l", "i", "d", " ", "g", "e", "o", "h",
     "a", "s", "h", " ", "c", "h", "a", "r", "a", "c", "t", "e",
     "r", ".", " ", " ", "U", "s", "e", " ", "0", "-", "9", ",",
     " ", "b", "-", "h", ",", " ", "j", ",", " ", "k", ",", " ",
     "m", ",", " ", "n", ",", " ", "p", "-", "z", "." >>

\* bin(value)[2:].zfill(5), for a value of dict32.
Bin5(value) ==
  [ k \in 1..BITS_PER_CHAR |->
      IF (value \div (2 ^ (BITS_PER_CHAR - k))) % 2 = 1 THEN "1" ELSE "0" ]

\* The loop of get_geobits from character i on: the KeyError of a character
\* ends it with the message as the return value.
RECURSIVE GetGeobitsLoop(_, _, _)
GetGeobitsLoop(geohash, i, geobits) ==
  IF i > Len(geohash) THEN geobits
  ELSE IF geohash[i] \notin DOMAIN geohash_dict32 THEN GeobitsMessage
       ELSE GetGeobitsLoop(geohash, i + 1,
                           geobits \o Bin5(geohash_dict32[geohash[i]]))

get_geobits(geohash) == GetGeobitsLoop(geohash, 1, << >>)

\* The loop of get_degrees from character i on: every character but "0"
\* takes the upper half.
RECURSIVE GetDegreesLoop(_, _, _, _)
GetDegreesLoop(bits, i, low, high) ==
  IF i > Len(bits) THEN << low, high >>
  ELSE LET mid == Half(low + high)
       IN IF bits[i] = "0"
          THEN GetDegreesLoop(bits, i + 1, low, mid)
          ELSE GetDegreesLoop(bits, i + 1, mid, high)

\* get_degrees: (degrees, precision).
get_degrees(bits, range_ends) ==
  LET tup_range == GetDegreesLoop(bits, 1, -range_ends, range_ends)
      degrees == Half(tup_range[1] + tup_range[2])
  IN << degrees, IF degrees - tup_range[1] < 0 THEN tup_range[1] - degrees
                 ELSE degrees - tup_range[1] >>

\* The range end (180 or 90) of an axis of geohash.decode.  The message of
\* get_geobits is halved 29 times per axis, more often than the unit of the
\* other modules stays whole, so the numbers of one call of geohash.decode
\* are written, per axis, in units of range_ends / 2^len(bits): every
\* halving of the call is then exact.
AxisEnds(axis_bits) == 2 ^ Len(axis_bits)

\* geohash.decode: nothing is raised; the response by geotype.
geohash_decode(geohash, geotype) ==
  LET geobits == get_geobits(geohash)
      lon_bits == EvenBits(geobits)
      lat_bits == OddBits(geobits)
      lon_r == get_degrees(lon_bits, AxisEnds(lon_bits))
      lat_r == get_degrees(lat_bits, AxisEnds(lat_bits))
  IN IF geotype = "pointerr"
     THEN << lat_r[1], lon_r[1], lat_r[2], lon_r[2] >>
     ELSE IF geotype = "polygon"
     THEN << << lon_r[1] - lon_r[2], lat_r[1] - lat_r[2] >>,
             << lon_r[1] + lon_r[2], lat_r[1] - lat_r[2] >>,
             << lon_r[1] - lon_r[2], lat_r[1] + lat_r[2] >>,
             << lon_r[1] + lon_r[2], lat_r[1] + lat_r[2] >> >>
     ELSE << lon_r[1], lat_r[1] >>

\* ------------------------------------------------------------------ inputs
\* Distance between two neighbouring input points of an axis.
LonGridStep == (LON_RANGE[2] - LON_RANGE[1]) \div (2 ^ GridBits)
LatGridStep == (LAT_RANGE[2] - LAT_RANGE[1]) \div (2 ^ GridBits)

\* The grid points of each axis, and one point past each end of the range.
LonInputs == { LON_RANGE[1] + k * LonGridStep : k \in (-1)..(2 ^ GridBits + 1) }
LatInputs == { LAT_RANGE[1] + k * LatGridStep : k \in (-1)..(2 ^ GridBits + 1) }
PrecisionInputs == (-1)..MaxPrecision
Variants == { "sonnet", "codex" }
\* The three modules that have an encode and a decode.
AllVariants == Variants \cup { "geohash" }

\* Every geohash of 1..MaxPrecision alphabet characters.
GeohashInputs ==
  UNION { [ 1..n -> AlphabetChars ] : n \in 1..MaxPrecision }

\* A character that is not in the alphabet.
InvalidChars == { "a" }

\* Every string of 1..MaxPrecision characters of the alphabet or invalid.
DecodeInputs ==
  UNION { [ 1..n -> AlphabetChars \cup InvalidChars ] : n \in 1..MaxPrecision }

Geotypes == { "point", "pointerr", "polygon" }

\* Every bit sequence of at most MaxPrecision * 5 bits.
BitInputs ==
  UNION { [ 1..n -> {0, 1} ] : n \in 0..(MaxPrecision * BITS_PER_CHAR) }

\* ------------------------------------------------------------------- state
VARIABLES
  variant,       \* the module called: "sonnet", "codex" or "geohash"
  geotype,       \* the geotype argument of codex_geo.decode and geohash.decode
  closed,        \* the closed argument of DecodedCell.to_polygon
  lon, lat, precision,   \* the arguments of encode
  geohash,       \* the argument of decode, neighbors, parent and bbox
  pc,            \* where the call is
  total_bits, lon_interval, lat_interval, bits, use_lon,  \* locals of encode
  result,        \* the string returned by encode or _bits_to_geohash
  error,         \* the exception raised, "" for none
  cell,          \* the DecodedCell returned by decode
  results,       \* the list returned by neighbors
  parent_hash,   \* the string returned by parent
  boxes,         \* << bbox(geohash), bbox(parent(geohash)) >>
  response,      \* the point, pointerr or polygon view returned by a decode
  unpacked       \* the list returned by _geohash_to_bits

vars == << variant, lon, lat, precision, geohash, pc, total_bits, lon_interval,
           lat_interval, bits, use_lon, result, error, cell, results,
           parent_hash, boxes, unpacked, geotype, closed, response >>

args == << variant, lon, lat, precision, geotype, closed >>
locals == << total_bits, lon_interval, lat_interval, bits, use_lon >>
navOut == << results, parent_hash, boxes, response >>

\* The defaults of the view arguments: geotype = "point" (codex_geo.decode,
\* geohash.decode) and closed = True (DecodedCell.to_polygon).
DefaultView == geotype = "point" /\ closed = TRUE

\* Nothing has been called yet: no locals, no results.
Idle ==
  /\ pc = "start"
  /\ total_bits = 0
  /\ lon_interval = LON_RANGE
  /\ lat_interval = LAT_RANGE
  /\ use_lon = TRUE
  /\ result = << >>
  /\ error = ""
  /\ cell = NoCell
  /\ results = << >>
  /\ parent_hash = << >>
  /\ boxes = << >>
  /\ unpacked = << >>
  /\ response = << >>

\* ---------------------------------------------------------- encode, decode
\* A caller holds a point and a precision and is about to call encode.
Init ==
  /\ variant \in Variants
  /\ lon \in LonInputs
  /\ lat \in LatInputs
  /\ precision \in PrecisionInputs
  /\ geohash = << >>
  /\ bits = << >>
  /\ DefaultView
  /\ Idle

\* sonnet_geo.encode up to its loop: validation, then the locals.
EncodeBegin ==
  /\ pc = "start"
  /\ variant = "sonnet"
  /\ LET e == EncodeValidate(lon, lat, precision)
     IN IF e # ""
        THEN /\ pc' = "raised"
             /\ error' = e
             /\ UNCHANGED total_bits
        ELSE /\ pc' = "loop"
             /\ total_bits' = _total_bits(precision).value
             /\ UNCHANGED error
  /\ lon_interval' = EncodeLocals.lon_interval
  /\ lat_interval' = EncodeLocals.lat_interval
  /\ bits' = EncodeLocals.bits
  /\ use_lon' = EncodeLocals.use_lon
  /\ UNCHANGED << args, geohash, result, cell, navOut, unpacked >>

\* One iteration of the loop of sonnet_geo.encode.
EncodeStep ==
  /\ pc = "loop"
  /\ variant = "sonnet"
  /\ Len(bits) < total_bits
  /\ LET st == EncodeLoopBody(
                 [ lon_interval |-> lon_interval, lat_interval |-> lat_interval,
                   bits |-> bits, use_lon |-> use_lon ], lon, lat)
     IN /\ lon_interval' = st.lon_interval
        /\ lat_interval' = st.lat_interval
        /\ bits' = st.bits
        /\ use_lon' = st.use_lon
  /\ UNCHANGED << args, geohash, pc, total_bits, result, error, cell, navOut,
                  unpacked >>

\* The return of sonnet_geo.encode: the bits are packed.
EncodeReturn ==
  /\ pc = "loop"
  /\ variant = "sonnet"
  /\ Len(bits) = total_bits
  /\ LET r == _bits_to_geohash(bits)
     IN /\ pc' = IF r.err # "" THEN "raised" ELSE "returned"
        /\ error' = r.err
        /\ result' = r.geohash
  /\ UNCHANGED << args, geohash, locals, cell, navOut, unpacked >>

\* codex_geo.encode up to its loop: only the precision is validated.
CodexEncodeBegin ==
  /\ pc = "start"
  /\ variant = "codex"
  /\ LET t == codex_total_bits(precision)
     IN IF t.err # ""
        THEN /\ pc' = "raised"
             /\ error' = t.err
             /\ UNCHANGED total_bits
        ELSE /\ pc' = "loop"
             /\ total_bits' = t.value
             /\ UNCHANGED error
  /\ lon_interval' = LON_RANGE
  /\ lat_interval' = LAT_RANGE
  /\ bits' = << >>
  /\ use_lon' = TRUE
  /\ UNCHANGED << args, geohash, result, cell, navOut, unpacked >>

\* One iteration of the loop of codex_geo.encode.
CodexEncodeStep ==
  /\ pc = "loop"
  /\ variant = "codex"
  /\ Len(bits) < total_bits
  /\ LET st == codex_EncodeLoopBody(
                 [ lon_interval |-> lon_interval, lat_interval |-> lat_interval,
                   bits |-> bits, use_lon |-> use_lon ], lon, lat)
     IN /\ lon_interval' = st.lon_interval
        /\ lat_interval' = st.lat_interval
        /\ bits' = st.bits
        /\ use_lon' = st.use_lon
  /\ UNCHANGED << args, geohash, pc, total_bits, result, error, cell, navOut,
                  unpacked >>

\* The return of codex_geo.encode.
CodexEncodeReturn ==
  /\ pc = "loop"
  /\ variant = "codex"
  /\ Len(bits) = total_bits
  /\ LET r == codex_bits_to_geohash(bits)
     IN /\ pc' = IF r.err # "" THEN "raised" ELSE "returned"
        /\ error' = r.err
        /\ result' = r.geohash
  /\ UNCHANGED << args, geohash, locals, cell, navOut, unpacked >>

\* The caller decodes what sonnet_geo.encode returned.
DecodeCall ==
  /\ pc = "returned"
  /\ variant = "sonnet"
  /\ geohash' = result
  /\ LET c == decode(result)
     IN /\ cell' = c
        /\ error' = c.err
        /\ pc' = IF c.err # "" THEN "raised" ELSE "decoded"
  /\ UNCHANGED << args, locals, result, navOut, unpacked >>

Next ==
  \/ EncodeBegin
  \/ EncodeStep
  \/ EncodeReturn
  \/ CodexEncodeBegin
  \/ CodexEncodeStep
  \/ CodexEncodeReturn
  \/ DecodeCall

Spec == Init /\ [][Next]_vars

\* ------------------------------------------------- navigator calls
\* A caller holds a geohash and is about to call neighbors or parent.
InitNav ==
  /\ variant = "sonnet"
  /\ lon = 0
  /\ lat = 0
  /\ precision = 0
  /\ geohash \in GeohashInputs
  /\ bits = << >>
  /\ DefaultView
  /\ Idle

NeighborsCall ==
  /\ pc = "start"
  /\ \E r \in { neighbors(geohash) } :
        /\ results' = r.results
        /\ error' = r.err
        /\ pc' = IF r.err # "" THEN "raised" ELSE "neighbors"
  /\ UNCHANGED << args, geohash, locals, result, cell, parent_hash, boxes,
                  unpacked, response >>

ParentCall ==
  /\ pc = "start"
  /\ parent_hash' = parent(geohash)
  /\ pc' = "parent"
  /\ UNCHANGED << args, geohash, locals, result, error, cell, results, boxes,
                  unpacked, response >>

\* The caller takes bbox of the geohash and of the parent it got.
BboxCall ==
  /\ pc = "parent"
  /\ boxes' = << bbox(geohash), bbox(parent_hash) >>
  /\ pc' = "bbox"
  /\ UNCHANGED << args, geohash, locals, result, error, cell, results,
                  parent_hash, unpacked, response >>

\* The caller decodes the geohash.
DecodeGeohashCall ==
  /\ pc = "start"
  /\ \E c \in { decode(geohash) } :
        /\ cell' = c
        /\ error' = c.err
        /\ pc' = IF c.err # "" THEN "raised" ELSE "cell"
  /\ UNCHANGED << args, geohash, locals, result, navOut, unpacked >>

\* The caller encodes the centre of the cell it got, at the precision of
\* the geohash.
ReencodeCall ==
  /\ pc = "cell"
  /\ \E r \in { encode(cell.lon, cell.lat, Len(geohash)) } :
        /\ result' = r.geohash
        /\ error' = r.err
        /\ pc' = IF r.err # "" THEN "raised" ELSE "reencoded"
  /\ UNCHANGED << args, geohash, locals, cell, navOut, unpacked >>

NextNav ==
  \/ NeighborsCall
  \/ ParentCall
  \/ BboxCall
  \/ DecodeGeohashCall
  \/ ReencodeCall

SpecNav == InitNav /\ [][NextNav]_vars

\* ------------------------------------------------- base32 codec calls
\* A caller holds a bit sequence and is about to pack it.
InitBits ==
  /\ variant = "sonnet"
  /\ lon = 0
  /\ lat = 0
  /\ precision = 0
  /\ geohash = << >>
  /\ bits \in BitInputs
  /\ DefaultView
  /\ Idle

PackCall ==
  /\ pc = "start"
  /\ LET r == _bits_to_geohash(bits)
     IN /\ result' = r.geohash
        /\ error' = r.err
        /\ pc' = IF r.err # "" THEN "raised" ELSE "packed"
  /\ UNCHANGED << args, geohash, locals, cell, navOut, unpacked >>

UnpackCall ==
  /\ pc = "packed"
  /\ LET r == _geohash_to_bits(result)
     IN /\ unpacked' = r.bits
        /\ error' = r.err
        /\ pc' = IF r.err # "" THEN "raised" ELSE "unpacked"
  /\ UNCHANGED << args, geohash, locals, result, cell, navOut >>

NextBits ==
  \/ PackCall
  \/ UnpackCall

SpecBits == InitBits /\ [][NextBits]_vars

\* ------------------------------------------------- encode, the three modules
\* A caller holds a point and a precision and is about to call the encode of
\* one of the three modules.
InitEncodeAll ==
  /\ variant \in AllVariants
  /\ lon \in LonInputs
  /\ lat \in LatInputs
  /\ precision \in PrecisionInputs
  /\ geohash = << >>
  /\ bits = << >>
  /\ DefaultView
  /\ Idle

SonnetEncodeCall ==
  /\ pc = "start"
  /\ variant = "sonnet"
  /\ \E r \in { encode(lon, lat, precision) } :
        /\ result' = r.geohash
        /\ error' = r.err
        /\ pc' = IF r.err # "" THEN "raised" ELSE "returned"
  /\ UNCHANGED << args, geohash, locals, cell, navOut, unpacked >>

CodexEncodeCall ==
  /\ pc = "start"
  /\ variant = "codex"
  /\ \E r \in { codex_encode(lon, lat, precision) } :
        /\ result' = r.geohash
        /\ error' = r.err
        /\ pc' = IF r.err # "" THEN "raised" ELSE "returned"
  /\ UNCHANGED << args, geohash, locals, cell, navOut, unpacked >>

GeohashEncodeCall ==
  /\ pc = "start"
  /\ variant = "geohash"
  /\ result' = geohash_encode(lon, lat, precision)
  /\ pc' = "returned"
  /\ UNCHANGED << args, geohash, locals, error, cell, navOut, unpacked >>

NextEncodeAll ==
  \/ SonnetEncodeCall
  \/ CodexEncodeCall
  \/ GeohashEncodeCall

SpecEncodeAll == InitEncodeAll /\ [][NextEncodeAll]_vars

\* ------------------------------------------------- decode, the three modules
\* A caller holds a string and is about to call the decode of one of the
\* three modules: sonnet_geo's returns a cell, whose to_polygon the caller
\* then takes; the other two return the view that geotype names.
InitDecode ==
  /\ variant \in AllVariants
  /\ lon = 0
  /\ lat = 0
  /\ precision = 0
  /\ geohash \in DecodeInputs
  /\ bits = << >>
  /\ IF variant = "sonnet"
     THEN geotype = "point" /\ closed \in BOOLEAN
     ELSE geotype \in Geotypes /\ closed = TRUE
  /\ Idle

SonnetDecodeCall ==
  /\ pc = "start"
  /\ variant = "sonnet"
  /\ \E c \in { decode(geohash) } :
        IF c.err # ""
        THEN pc' = "raised" /\ error' = c.err /\ UNCHANGED cell
        ELSE pc' = "decoded" /\ cell' = c /\ UNCHANGED error
  /\ UNCHANGED << args, geohash, locals, result, navOut, unpacked >>

ToPolygonCall ==
  /\ pc = "decoded"
  /\ variant = "sonnet"
  /\ response' = to_polygon(cell, closed)
  /\ pc' = "polygon"
  /\ UNCHANGED << args, geohash, locals, result, error, cell, results,
                  parent_hash, boxes, unpacked >>

CodexDecodeCall ==
  /\ pc = "start"
  /\ variant = "codex"
  /\ \E r \in { codex_decode(geohash, geotype) } :
        /\ response' = r.response
        /\ error' = r.err
        /\ pc' = IF r.err # "" THEN "raised"
                 ELSE IF geotype = "polygon" THEN "polygon" ELSE "decoded"
  /\ UNCHANGED << args, geohash, locals, result, cell, results, parent_hash,
                  boxes, unpacked >>

GeohashDecodeCall ==
  /\ pc = "start"
  /\ variant = "geohash"
  /\ response' = geohash_decode(geohash, geotype)
  /\ pc' = IF geotype = "polygon" THEN "polygon" ELSE "decoded"
  /\ UNCHANGED << args, geohash, locals, result, error, cell, results,
                  parent_hash, boxes, unpacked >>

NextDecode ==
  \/ SonnetDecodeCall
  \/ ToPolygonCall
  \/ CodexDecodeCall
  \/ GeohashDecodeCall

SpecDecode == InitDecode /\ [][NextDecode]_vars

\* ------------------------------------------------------------------ claims
Abs(x) == IF x < 0 THEN -x ELSE x

\* The inputs sonnet_geo.encode accepts.
ValidPoint ==
  /\ LON_RANGE[1] <= lon /\ lon <= LON_RANGE[2]
  /\ LAT_RANGE[1] <= lat /\ lat <= LAT_RANGE[2]

\* C1: in sonnet_geo, the cell decoded from encode(lon, lat, precision)
\* contains the input point, |cell.lon - lon| <= cell.lon_err and
\* |cell.lat - lat| <= cell.lat_err, for every valid input, the range ends
\* lon = +/-180 and lat = +/-90 included; and no valid input makes encode or
\* the decode of its result raise.
C1_RoundTripContains ==
  variant = "sonnet" =>
    /\ (ValidPoint /\ precision > 0) => pc # "raised"
    /\ pc = "decoded" =>
         /\ geohash = result
         /\ Abs(cell.lon - lon) <= cell.lon_err
         /\ Abs(cell.lat - lat) <= cell.lat_err

\* C1 witness: the north-east corner of the world, encoded and decoded at more
\* than one character, lies on the edge of its cell.
C1_Witness ==
  /\ variant = "sonnet" /\ pc = "decoded"
  /\ lon = LON_RANGE[2] /\ lat = LAT_RANGE[2] /\ precision > 1
  /\ cell.lon + cell.lon_err = lon
  /\ cell.lat + cell.lat_err = lat

\* The interval, value and midpoint the next iteration of encode looks at.
CurInterval == IF use_lon THEN lon_interval ELSE lat_interval
CurValue == IF use_lon THEN lon ELSE lat
CurMid == Half(CurInterval[1] + CurInterval[2])

\* C2: in encode of sonnet_geo and of codex_geo, an iteration whose value is
\* the midpoint of its interval appends bit 1 and moves the lower bound of
\* that interval to the midpoint; and encode(0, 0, 1) returns "s".
C2_TieGoesUp ==
  [][ /\ (pc = "loop" /\ Len(bits) < total_bits /\ CurValue = CurMid) =>
           /\ bits' = Append(bits, 1)
           /\ (IF use_lon THEN lon_interval' ELSE lat_interval')
                = << CurMid, CurInterval[2] >>
      /\ (pc' = "returned" /\ lon' = 0 /\ lat' = 0 /\ precision' = 1) =>
           result' = << "s" >>
      /\ (lon' = 0 /\ lat' = 0 /\ precision' = 1) => pc' # "raised" ]_vars

\* C2 witness: codex_geo's encode(0, 0, 1) has returned "s", its first two
\* bits being the two ties.
C2_Witness ==
  /\ variant = "codex" /\ pc = "returned"
  /\ lon = 0 /\ lat = 0 /\ precision = 1
  /\ SubSeq(bits, 1, 2) = << 1, 1 >>
  /\ result = << "s" >>

\* C9: in sonnet_geo, encode of a valid point at precision > 0 returns
\* exactly `precision` characters, all of the 32-symbol alphabet, and the
\* packer's bit-length error is never raised.
C9_LengthAndAlphabet ==
  variant = "sonnet" =>
    /\ error # "ValueError"
    /\ (ValidPoint /\ precision > 0) => pc # "raised"
    /\ pc \in { "returned", "decoded" } =>
         /\ Len(result) = precision
         /\ \A i \in 1..Len(result) : result[i] \in AlphabetChars
         /\ Len(BASE32_ALPHABET) = 32
         /\ Cardinality(AlphabetChars) = 32

\* C9 witness: a string of the longest precision has been returned.
C9_Witness ==
  /\ variant = "sonnet" /\ pc = "returned"
  /\ precision = MaxPrecision
  /\ Len(result) = MaxPrecision

\* C10 as stated: an out-of-range coordinate raises InvalidCoordinate and a
\* precision <= 0 raises InvalidPrecision, whatever the other arguments.
C10_AsStated ==
  (variant = "sonnet" /\ pc # "start") =>
    /\ ~ValidPoint => (pc = "raised" /\ error = "InvalidCoordinateError")
    /\ precision <= 0 => (pc = "raised" /\ error = "InvalidPrecisionError")
    /\ (ValidPoint /\ precision > 0) => pc # "raised"

\* C10, amended: sonnet_geo.encode raises InvalidCoordinate whenever lon is
\* outside [-180, 180] or lat outside [-90, 90] (whatever the precision),
\* and raises InvalidPrecision whenever precision <= 0 and the coordinates
\* are in range; in both cases nothing is returned, and lon = +/-180 and
\* lat = +/-90 are accepted.
C10_ValidationErrors ==
  (variant = "sonnet" /\ pc # "start") =>
    /\ ~ValidPoint =>
         (pc = "raised" /\ error = "InvalidCoordinateError" /\ result = << >>)
    /\ (ValidPoint /\ precision <= 0) =>
         (pc = "raised" /\ error = "InvalidPrecisionError" /\ result = << >>)
    /\ (ValidPoint /\ precision > 0) => pc # "raised"

\* C10 witness: a latitude just past the pole has been refused, at a
\* precision that is valid.
C10_Witness ==
  /\ variant = "sonnet" /\ pc = "raised"
  /\ lat > LAT_RANGE[2] /\ lon = LON_RANGE[1] /\ precision > 0
  /\ error = "InvalidCoordinateError"

\* C8: _geohash_to_bits(_bits_to_geohash(b)) = b for every bit sequence b
\* whose length is a multiple of 5, each 5 bits making one character, and
\* the unpacked length is 5 times the number of characters.
C8_BitsRoundTrip ==
  /\ (pc # "start" /\ Len(bits) % BITS_PER_CHAR = 0) => pc # "raised"
  /\ pc \in { "packed", "unpacked" } =>
       /\ Len(result) * BITS_PER_CHAR = Len(bits)
       /\ \A i \in 1..Len(result) : result[i] \in AlphabetChars
  /\ pc = "unpacked" =>
       /\ unpacked = bits
       /\ Len(unpacked) = BITS_PER_CHAR * Len(result)

\* C8 witness: two characters whose groups are not palindromes came back as
\* the ten bits that went in.
C8_Witness ==
  /\ pc = "unpacked"
  /\ bits = << 1, 1, 0, 0, 0, 0, 0, 0, 0, 1 >>
  /\ result = << "s", "1" >>
  /\ unpacked = bits

\* The centre a neighbour k columns east (dx) and rows north (dy) of the cell
\* has: longitudes continue across the antimeridian, and a row past a pole
\* is the cell's own row.
ShiftedLon(c, dx) ==
  LET x == c.lon + dx * 2 * c.lon_err
  IN IF x > LON_RANGE[2] THEN x - LON_SPAN
     ELSE IF x < LON_RANGE[1] THEN x + LON_SPAN ELSE x
ShiftedLat(c, dy) ==
  LET y == c.lat + dy * 2 * c.lat_err
  IN IF y > LAT_RANGE[2] \/ y < LAT_RANGE[1] THEN c.lat ELSE y

TouchesNorth == bbox(geohash)[4] = LAT_RANGE[2]
TouchesSouth == bbox(geohash)[2] = LAT_RANGE[1]
TouchesEast == bbox(geohash)[3] = LON_RANGE[2]
TouchesWest == bbox(geohash)[1] = LON_RANGE[1]

C5_PoleRowsCollapse ==
  /\ pc # "raised"
  /\ pc = "neighbors" =>
       /\ TouchesNorth =>
            /\ SubSeq(results, 1, 3) = SubSeq(results, 4, 6)
            /\ \A k \in 1..3 : bbox(results[k])[4] = LAT_RANGE[2]
       /\ TouchesSouth =>
            /\ SubSeq(results, 7, 9) = SubSeq(results, 4, 6)
            /\ \A k \in 7..9 : bbox(results[k])[2] = LAT_RANGE[1]

\* C5 witness: a two-character cell on the north pole, and its collapsed
\* north row.
C5_Witness ==
  /\ pc = "neighbors"
  /\ Len(geohash) = 2
  /\ TouchesNorth /\ ~TouchesEast /\ ~TouchesWest
  /\ SubSeq(results, 1, 3) = SubSeq(results, 4, 6)
  /\ Cardinality({ results[k] : k \in 1..9 }) = 6

\* The longitudes neighbors passes to _wrap_longitude for the geohash.
CandidateLons ==
  { decode(geohash).lon + d * 2 * decode(geohash).lon_err : d \in { -1, 0, 1 } }

\* C6: in sonnet_geo, _wrap_longitude returns a value in [-180, 180), 180
\* becoming -180; the E neighbour of a cell whose east edge is lon = 180 is
\* the cell of the same latitude row whose west edge is lon = -180, the W
\* neighbour of a cell whose west edge is lon = -180 is the cell of the same
\* row whose east edge is lon = 180; and neighbors of a valid non-empty
\* geohash never fails with InvalidCoordinate.
C6_AntimeridianWrap ==
  /\ error # "InvalidCoordinateError"
  /\ pc # "raised"
  /\ pc = "neighbors" =>
       \A b \in { bbox(geohash) } :
         /\ \A x \in CandidateLons \cup { LON_RANGE[1], LON_RANGE[2] } :
              /\ LON_RANGE[1] <= _wrap_longitude(x)
              /\ _wrap_longitude(x) < LON_RANGE[2]
              /\ (_wrap_longitude(x) - x) % LON_SPAN = 0
         /\ _wrap_longitude(LON_RANGE[2]) = LON_RANGE[1]
         /\ b[3] = LON_RANGE[2] =>
              \A e \in { bbox(results[6]) } :
                e[1] = LON_RANGE[1] /\ e[2] = b[2] /\ e[4] = b[4]
         /\ b[1] = LON_RANGE[1] =>
              \A w \in { bbox(results[4]) } :
                w[3] = LON_RANGE[2] /\ w[2] = b[2] /\ w[4] = b[4]

\* C6 witness: "z" is the north-east cell of the world; east of it, across
\* the antimeridian, lies "b".
C6_Witness ==
  /\ pc = "neighbors"
  /\ geohash = << "z" >>
  /\ TouchesEast
  /\ results[6] = << "b" >>
  /\ bbox(results[6])[1] = LON_RANGE[1]

\* C7: in sonnet_geo, parent(h) is h without its last character (h itself
\* when len(h) = 1), and the bounding box (W, S, E, N) of parent(h) contains
\* the bounding box (w, s, e, n) of h: W <= w, S <= s, e <= E, n <= N.
C7_ParentContains ==
  /\ pc \in { "parent", "bbox" } =>
       /\ Len(parent_hash) = MaxOf(1, Len(geohash) - 1)
       /\ \A i \in 1..Len(parent_hash) : parent_hash[i] = geohash[i]
  /\ pc = "bbox" =>
       /\ Len(boxes[1]) = 4 /\ Len(boxes[2]) = 4
       /\ boxes[2][1] <= boxes[1][1]
       /\ boxes[2][2] <= boxes[1][2]
       /\ boxes[1][3] <= boxes[2][3]
       /\ boxes[1][4] <= boxes[2][4]

\* C7 witness: a two-character geohash whose box lies strictly inside the
\* box of its one-character parent.
C7_Witness ==
  /\ pc = "bbox"
  /\ Len(geohash) = 2 /\ Len(parent_hash) = 1
  /\ boxes[2][1] < boxes[1][1]
  /\ boxes[2][2] < boxes[1][2]
  /\ boxes[1][3] < boxes[2][3]
  /\ boxes[1][4] < boxes[2][4]

\* C14: in sonnet_geo, encoding the centre of the cell decoded from a valid
\* non-empty geohash h, at precision len(h), returns h; neither call raises.
C14_CentreReencodes ==
  /\ pc # "raised"
  /\ pc \in { "cell", "reencoded" } =>
       /\ cell.geohash = geohash
       /\ cell.lon_err > 0 /\ cell.lat_err > 0
  /\ pc = "reencoded" =>
       /\ Len(result) = Len(geohash)
       /\ result = geohash

\* C14 witness: the centre of a two-character cell on the antimeridian and
\* the south pole has been encoded back to the geohash.
C14_Witness ==
  /\ pc = "reencoded"
  /\ geohash = << "0", "0" >>
  /\ cell.lon - cell.lon_err = LON_RANGE[1]
  /\ cell.lat - cell.lat_err = LAT_RANGE[1]
  /\ result = << "0", "0" >>

\* C15: in sonnet_geo, encode(lon, lat, p) is the first p characters of
\* encode(lon, lat, q) for valid lon, lat and 0 < p < q; in particular
\* parent(encode(lon, lat, p + 1)) = encode(lon, lat, p).
C15_PrefixConsistent ==
  (variant = "sonnet" /\ pc \in { "returned", "decoded" }) =>
    /\ \A p \in 1..(precision - 1) :
         \A r \in { encode(lon, lat, p) } :
           /\ r.err = ""
           /\ Len(r.geohash) = p
           /\ r.geohash = SubSeq(result, 1, p)
    /\ precision > 1 =>
         parent(result) = encode(lon, lat, precision - 1).geohash

\* C15 witness: a point on a midpoint of both axes, encoded at two
\* characters whose first is what encode returns at one character.
C15_Witness ==
  /\ variant = "sonnet" /\ pc = "returned"
  /\ lon = 0 /\ lat = 0 /\ precision = 2
  /\ result = << "s", "0" >>
  /\ encode(lon, lat, 1).geohash = << "s" >>
  /\ parent(result) = << "s" >>

\* C13: for every lon in [-180, 180], lat in [-90, 90] and precision > 0,
\* geohash.encode, codex_geo.encode and sonnet_geo.encode return the same
\* geohash string, the points on a bisection midpoint included.
C13_SameEncode ==
  (pc = "returned" /\ ValidPoint /\ precision > 0) =>
    /\ result = encode(lon, lat, precision).geohash
    /\ result = codex_encode(lon, lat, precision).geohash
    /\ result = geohash_encode(lon, lat, precision)

\* Whether the string holds a character outside the 32-symbol alphabet.
HasInvalidChar == \E i \in 1..Len(geohash) : geohash[i] \notin AlphabetChars

\* C11: in every module (sonnet_geo.decode, codex_geo.decode,
\* geohash.decode), decoding a string with a character outside the alphabet
\* raises an invalid-character error and returns no coordinates and no cell.
C11_InvalidCharRaises ==
  (pc # "start" /\ HasInvalidChar) =>
    /\ pc = "raised"
    /\ error \in { "InvalidGeohashError", "ValueError: Invalid geohash character" }
    /\ response = << >>
    /\ cell = NoCell

\* The smallest and the largest of a non-empty set of integers.
Least(S) == CHOOSE x \in S : \A y \in S : x <= y
Greatest(S) == CHOOSE x \in S : \A y \in S : y <= x

\* C12: every polygon view of a decoded cell (to_polygon of sonnet_geo and
\* of codex_geo, geohash.decode with geotype "polygon") lists the corners
\* SW, SE, NE, NW in this order; in sonnet_geo a fifth point equal to SW
\* follows when closed is true, and there are exactly four when it is false.
C12_PolygonOrder ==
  pc = "polygon" =>
    LET west == Least({ response[k][1] : k \in 1..Len(response) })
        east == Greatest({ response[k][1] : k \in 1..Len(response) })
        south == Least({ response[k][2] : k \in 1..Len(response) })
        north == Greatest({ response[k][2] : k \in 1..Len(response) })
    IN /\ Len(response) >= 4
       /\ SubSeq(response, 1, 4)
            = << << west, south >>, << east, south >>,
                 << east, north >>, << west, north >> >>
       /\ variant = "sonnet" =>
            IF closed
            THEN Len(response) = 5 /\ response[5] = << west, south >>
            ELSE Len(response) = 4

====
